---- MODULE Spec2Model ----
(***************************************************************************)
(* Model of the dataset utilities of composer (composer/datasets/utils.py) *)
(* and of the run-metadata logger exercised by                             *)
(* tests/loggers/test_mosaicml_logger.py.                                  *)
(*                                                                         *)
(* Python lists are 0-based, TLA+ sequences 1-based: Python index i is     *)
(* position i + 1 of the sequence that models the list.                    *)
(***************************************************************************)
EXTENDS Integers, Sequences, FiniteSets, TLC

VARIABLES
    \* MultiTokenEOSCriteria
    batch_size,      \* the batch_size the criterion was constructed with
    done_tracker,    \* self.done_tracker
    eos_before,      \* done_tracker as it was when the last __call__ started
    eos_rows,        \* number of rows of the batch of the last __call__ (-1: no call yet)
    eos_ret,         \* what the last __call__ returned
    eos_calls,       \* number of calls made so far
    \* add_vision_dataset_transform
    transform,       \* dataset.transform
    tf_prev,         \* dataset.transform as it was when the last call started
    tf_new,          \* the transform argument of the last call
    tf_is_tensor,    \* the is_tensor_transform argument of the last call
    tf_log,          \* the message of the last log.warning
    tf_calls,        \* number of calls made so far
    \* pil_image_collate
    col_batch,       \* the batch argument: a list of (image, target) samples
    col_out,         \* the outcome of the call on col_batch
    \* format_data_to_json_serializable
    fmt_data,        \* the data the formatter is given
    fmt_once,        \* format_data_to_json_serializable(data)
    fmt_twice,       \* the formatter applied to fmt_once
    fmt_pc,          \* how many times the formatter has been applied
    \* MosaicMLLogger and MockMAPI, one of each per rank (process)
    ignore_keys,     \* MosaicMLLogger(ignore_keys=...), the same on all ranks
    rank_pc,         \* rank -> where its trainer is
    rank_events,     \* rank -> number of log_metrics events of its fit so far
    run_metadata,    \* rank -> its MockMAPI.run_metadata
    mapi_calls,      \* rank -> number of update_run_metadata calls it made
    mapi_sent,       \* rank -> the new_metadata of its last update_run_metadata
    mapi_error       \* rank -> whether a json.dumps of its MockMAPI has raised

eosVars == <<batch_size, done_tracker, eos_before, eos_rows, eos_ret, eos_calls>>
tfVars == <<transform, tf_prev, tf_new, tf_is_tensor, tf_log, tf_calls>>

colVars == <<col_batch, col_out>>

fmtVars == <<fmt_data, fmt_once, fmt_twice, fmt_pc>>

logVars == <<ignore_keys, rank_pc, rank_events, run_metadata, mapi_calls,
             mapi_sent, mapi_error>>

vars == <<eosVars, tfVars, colVars, fmtVars, logVars>>

Min(a, b) == IF a < b THEN a ELSE b

(***************************************************************************)
(* MultiTokenEOSCriteria                                                   *)
(***************************************************************************)

\* Largest batch_size a criterion is constructed with.
MaxBatch == 3
\* Number of __call__ invocations on one criterion object.
MaxCalls == 3

\* The tokenizer: token id -> the characters it decodes to.  "N" stands for a
\* newline; id 2 is the single token for two newlines, as in the comment of
\* __init__ (the model may generate ['\n', '\n'] where the stop sequence
\* encodes as ['\n\n']).
Vocab == << <<"N">>, <<"N", "N">>, <<"x">> >>

stop_sequence == <<"N", "N">>
stop_sequence_ids == <<2>>
stop_sequence_id_len == Len(stop_sequence_ids) + 2

\* tokenizer.decode of one row of ids: the concatenation of the tokens' texts.
RECURSIVE Decode(_)
Decode(ids) ==
    IF ids = <<>> THEN <<>> ELSE Vocab[Head(ids)] \o Decode(Tail(ids))

\* input_ids[:, -stop_sequence_id_len:] for one row.
Lookback(ids) ==
    IF Len(ids) <= stop_sequence_id_len THEN ids
    ELSE SubSeq(ids, Len(ids) - stop_sequence_id_len + 1, Len(ids))

\* tokenizer.batch_decode(lookback_ids_batch)
BatchDecode(input_ids) ==
    [r \in 1..Len(input_ids) |-> Decode(Lookback(input_ids[r]))]

\* Python's `needle in text` for strings.
Contains(needle, text) ==
    \E k \in 0..(Len(text) - Len(needle)) :
        SubSeq(text, k + 1, k + Len(needle)) = needle

RECURSIVE EosLoopReassign(_, _, _)
EosLoopReassign(tracker, i, texts) ==
    IF i > Len(tracker) THEN tracker
    ELSE IF i - 1 >= Len(texts)
         THEN [tracker EXCEPT ![i] = TRUE]
         ELSE EosLoopReassign(
                  [tracker EXCEPT ![i] = Contains(stop_sequence, texts[i])],
                  i + 1, texts)

\* The for loop of __call__ from Python index i - 1 on.
RECURSIVE EosLoop(_, _, _)
EosLoop(tracker, i, texts) ==
    IF i > Len(tracker) THEN tracker
    ELSE IF i - 1 >= Len(texts)
         THEN [tracker EXCEPT ![i] = TRUE]       \* ... then `break`
         ELSE IF ~tracker[i]
              THEN EosLoop([tracker EXCEPT ![i] = Contains(stop_sequence, texts[i])],
                           i + 1, texts)
              ELSE EosLoop(tracker, i + 1, texts)

EosReturnAny(tracker) == \E i \in 1..Len(tracker) : tracker[i]

\* `False not in self.done_tracker`
EosReturn(tracker) == \A i \in 1..Len(tracker) : tracker[i]

\* The rows a batch is made of: generated ids of one sequence.
Rows ==
    { <<3, 3, 3, 3>>,      \* no stop sequence
      <<3, 3, 3, 2>>,      \* the stop token at the end
      <<3, 3, 1, 1>>,      \* the stop sequence in another tokenization
      <<2, 3, 3, 3>>,      \* the stop token before the lookback window
      <<3, 1>> }           \* shorter than the lookback window

\* Batches of n rows (all rows of a tensor have the same length).
Batches(n) ==
    { b \in [1..n -> Rows] : \A r \in 1..n : Len(b[r]) = Len(b[1]) }

EosStart ==
    /\ batch_size \in 0..MaxBatch
    /\ done_tracker = [i \in 1..batch_size |-> FALSE]
    /\ eos_before = done_tracker
    /\ eos_rows = -1
    /\ eos_ret = FALSE
    /\ eos_calls = 0

EosCall ==
    /\ eos_calls < MaxCalls
    /\ \E n \in 1..MaxBatch : \E input_ids \in Batches(n) :
          LET lookback_tokens_batch == BatchDecode(input_ids)
              after == EosLoop(done_tracker, 1, lookback_tokens_batch)
          IN /\ done_tracker' = after
             /\ eos_before' = done_tracker
             /\ eos_rows' = n
             /\ eos_ret' = EosReturn(after)
    /\ eos_calls' = eos_calls + 1
    /\ UNCHANGED batch_size

\* C1: whenever the batch of a call has fewer rows than batch_size, after the
\* call every done flag at a Python index >= the batch's row count is True.
C1_OutOfRangeDone ==
    (eos_rows >= 0 /\ eos_rows < batch_size)
        => \A i \in (eos_rows + 1)..batch_size : done_tracker[i]

\* C2: a call returns True if and only if, after its updates, every entry of
\* done_tracker is True.
C2_HaltsIffAllDone ==
    eos_rows >= 0 => (eos_ret <=> \A i \in 1..batch_size : done_tracker[i])

\* A second or later call returned True, and an earlier state of the same
\* criterion had a flag still False.
C2_Witness ==
    /\ eos_calls >= 2
    /\ eos_ret
    /\ \E i \in 1..batch_size : ~eos_before[i]

\* C12: the done flags are all False right after construction, a flag that is
\* True stays True over every later __call__, and once a call has returned True
\* every later call returns True.
C12_DoneMonotonic ==
    /\ [](eos_calls = 0 => \A i \in 1..batch_size : ~done_tracker[i])
    /\ [][/\ \A i \in 1..batch_size : done_tracker[i] => done_tracker'[i]
          /\ (eos_rows >= 0 /\ eos_ret) => eos_ret']_vars

\* A third call was made on a criterion of two or more sequences whose flags
\* were all True already (so the call before it had returned True).
C12_Witness ==
    /\ eos_calls >= 3
    /\ batch_size >= 2
    /\ \A i \in 1..batch_size : eos_before[i]
    /\ eos_ret

(***************************************************************************)
(* add_vision_dataset_transform                                            *)
(*                                                                         *)
(* A transform object is [kind, id]: kind is its class, id its identity.   *)
(* dataset.transform is [tag, ts]: tag "None" (ts empty), "Single" (ts the *)
(* one transform that is not a Compose) or "Compose" (ts its .transforms). *)
(***************************************************************************)

\* Longest Compose a dataset starts with.
MaxInitLen == 2
\* Number of add_vision_dataset_transform calls on one dataset.
MaxTfCalls == 2

Kinds == {"ToTensor", "RandomCrop"}

NoTransform == [tag |-> "None", ts |-> <<>>]
Single(t) == [tag |-> "Single", ts |-> <<t>>]
Compose(ts) == [tag |-> "Compose", ts |-> ts]

\* isinstance(t, transforms.ToTensor)
IsToTensor(t) == t.kind = "ToTensor"

\* str(t) of one transform, e.g. "ToTensor()".
ReprT(t) == t.kind \o "()"

\* str(dataset.transform): "None", the transform's own repr, or Compose's
\* repr, which lists the transforms in order.
Repr(p) ==
    IF p.tag = "None" THEN <<"None">>
    ELSE IF p.tag = "Single" THEN <<ReprT(p.ts[1])>>
    ELSE <<"Compose(">> \o [k \in 1..Len(p.ts) |-> ReprT(p.ts[k])] \o <<")">>

\* The f-string of transform_added_logstring, evaluated on the dataset p.
LogString(t, p) == [added |-> ReprT(t), now |-> Repr(p)]

ListInsertOverwrite(s, i, x) ==
    IF i < Len(s) THEN [s EXCEPT ![i + 1] = x] ELSE Append(s, x)

\* list.insert(i, x), i >= 0 a Python index: an index past the end appends.
ListInsert(s, i, x) ==
    LET k == Min(i, Len(s))
    IN SubSeq(s, 1, k) \o <<x>> \o SubSeq(s, k + 1, Len(s))

InsertionIndexLast(ts) ==
    IF \E k \in 1..Len(ts) : IsToTensor(ts[k])
    THEN (CHOOSE k \in 1..Len(ts) :
              IsToTensor(ts[k]) /\ \A j \in (k + 1)..Len(ts) : ~IsToTensor(ts[j])) - 1
    ELSE Len(ts)

InsertionIndexFront(ts) ==
    IF \E k \in 1..Len(ts) : IsToTensor(ts[k])
    THEN (CHOOSE k \in 1..Len(ts) :
              IsToTensor(ts[k]) /\ \A j \in 1..(k - 1) : ~IsToTensor(ts[j])) - 1
    ELSE 0

\* The Python index the search loop leaves in insertion_index: that of the
\* first ToTensor, len(transforms) when there is none.
InsertionIndex(ts) ==
    IF \E k \in 1..Len(ts) : IsToTensor(ts[k])
    THEN (CHOOSE k \in 1..Len(ts) :
              IsToTensor(ts[k]) /\ \A j \in 1..(k - 1) : ~IsToTensor(ts[j])) - 1
    ELSE Len(ts)

\* dataset.transform after add_vision_dataset_transform(dataset, t, is_tensor).
AddTransform(p, t, is_tensor) ==
    IF p.tag = "None" THEN Single(t)
    ELSE IF p.tag = "Compose"
    THEN LET insertion_index == InsertionIndex(p.ts) + (IF is_tensor THEN 1 ELSE 0)
         IN Compose(ListInsert(p.ts, insertion_index, t))
    ELSE IF IsToTensor(p.ts[1]) /\ ~is_tensor
         THEN Compose(<<t, p.ts[1]>>)
         ELSE Compose(<<p.ts[1], t>>)

\* The transforms a dataset is constructed with: ids 1..n in order.
InitTransforms ==
    UNION { [1..n -> Kinds] : n \in 0..MaxInitLen }

WithIds(ks) == [k \in 1..Len(ks) |-> [kind |-> ks[k], id |-> k]]

TfStart ==
    /\ \E ks \in InitTransforms :
          transform \in
              (IF Len(ks) = 0 THEN {NoTransform} ELSE {})
              \cup (IF Len(ks) = 1 THEN {Single(WithIds(ks)[1])} ELSE {})
              \cup {Compose(WithIds(ks))}
    /\ tf_prev = transform
    /\ tf_new = [kind |-> "None", id |-> 0]
    /\ tf_is_tensor = FALSE
    /\ tf_log = [added |-> "", now |-> <<>>]
    /\ tf_calls = 0

\* One call; the new transform is an object not yet in the pipeline.
TfAdd ==
    /\ tf_calls < MaxTfCalls
    /\ \E kind \in Kinds, is_tensor \in BOOLEAN :
          LET t == [kind |-> kind, id |-> MaxInitLen + tf_calls + 1]
          IN /\ tf_log' = LogString(t, transform)    \* built before the change
             /\ transform' = AddTransform(transform, t, is_tensor)
             /\ tf_new' = t
             /\ tf_is_tensor' = is_tensor
    /\ tf_prev' = transform
    /\ tf_calls' = tf_calls + 1

\* Position in ts of the transform object t (0 when absent).
PosOf(ts, t) ==
    IF \E k \in 1..Len(ts) : ts[k] = t
    THEN CHOOSE k \in 1..Len(ts) : ts[k] = t
    ELSE 0

HasToTensor(p) == \E k \in 1..Len(p.ts) : p.ts[k].kind = "ToTensor"

\* The first ToTensor of a pipeline p that has one.
FirstToTensor(p) ==
    p.ts[CHOOSE k \in 1..Len(p.ts) :
             /\ p.ts[k].kind = "ToTensor"
             /\ \A j \in 1..(k - 1) : p.ts[j].kind # "ToTensor"]

\* C3: when the pipeline contains a ToTensor (in a Compose or as the sole
\* transform), after the call the new transform sits immediately before the
\* pipeline's first ToTensor if is_tensor_transform is False, and immediately
\* after it if is_tensor_transform is True.
C3_AroundFirstToTensor ==
    (tf_calls > 0 /\ HasToTensor(tf_prev))
        => LET tt == PosOf(transform.ts, FirstToTensor(tf_prev))
               nw == PosOf(transform.ts, tf_new)
           IN /\ transform.tag = "Compose"
              /\ tt > 0
              /\ nw > 0
              /\ nw = (IF tf_is_tensor THEN tt + 1 ELSE tt - 1)

\* A tensor transform was added to a Compose holding two ToTensor, the first
\* of them not at the front.
C3_Witness ==
    /\ tf_calls > 0
    /\ tf_is_tensor
    /\ tf_prev.tag = "Compose"
    /\ Len(tf_prev.ts) >= 3
    /\ ~IsToTensor(tf_prev.ts[1])
    /\ Cardinality({k \in 1..Len(tf_prev.ts) : IsToTensor(tf_prev.ts[k])}) >= 2

\* C4: when no ToTensor is in the pipeline (a Compose without one, or a single
\* transform that is not one), the new transform is the last element of the
\* resulting pipeline, whatever is_tensor_transform is.
C4_AppendedWithoutToTensor ==
    (tf_calls > 0 /\ tf_prev.tag # "None" /\ ~HasToTensor(tf_prev))
        => /\ transform.tag = "Compose"
           /\ transform.ts[Len(transform.ts)] = tf_new

\* A tensor transform was added to a non-empty Compose without ToTensor: the
\* insertion index is one past the end of the list.
C4_Witness ==
    /\ tf_calls > 0
    /\ tf_is_tensor
    /\ tf_prev.tag = "Compose"
    /\ Len(tf_prev.ts) >= 2
    /\ ~HasToTensor(tf_prev)

\* C10: in every branch the "Dataset now has the following transforms" part of
\* the logged warning shows the pipeline as it is after the new transform has
\* been added.
C10_LogShowsNewPipeline ==
    tf_calls > 0 => tf_log.now = Repr(transform)

\* The sequence ts without its element at position k.
Without(ts, k) == SubSeq(ts, 1, k - 1) \o SubSeq(ts, k + 1, Len(ts))

\* C11: a call keeps every transform that was in the pipeline, once each and
\* in the same order, and adds exactly one, the new transform; an empty
\* pipeline (None) becomes the new transform alone.
C11_PipelinePreserved ==
    tf_calls > 0
        => /\ Len(transform.ts) = Len(tf_prev.ts) + 1
           /\ PosOf(transform.ts, tf_new) > 0
           /\ Without(transform.ts, PosOf(transform.ts, tf_new)) = tf_prev.ts
           /\ tf_prev.tag = "None" => transform = Single(tf_new)

\* A second call put its transform strictly inside a Compose of two or more
\* transforms, neither first nor last.
C11_Witness ==
    /\ tf_calls >= 2
    /\ tf_prev.tag = "Compose"
    /\ Len(tf_prev.ts) >= 2
    /\ PosOf(transform.ts, tf_new) > 1
    /\ PosOf(transform.ts, tf_new) < Len(transform.ts)

(***************************************************************************)
(* pil_image_collate                                                       *)
(*                                                                         *)
(* An array or tensor is [shape, data], data its elements in row-major     *)
(* order.  A PIL image is [size, bands, px]: size = <<width, height>>, px  *)
(* its pixels in (height, width, band) order, which is what np.asarray     *)
(* yields.  A target is [isimg, size, px]: a single-band PIL image, or a   *)
(* scalar (size <<>>, px its one value).                                   *)
(***************************************************************************)

\* Longest batch handed to the collator.
MaxSamples == 2

Sizes == { <<1, 1>>, <<2, 1>>, <<1, 2>> }
Bands == {1, 3, 4}

RECURSIVE Numel(_)
Numel(shape) == IF shape = <<>> THEN 1 ELSE Head(shape) * Numel(Tail(shape))

Zeros(shape) == [shape |-> shape, data |-> [k \in 1..Numel(shape) |-> 0]]

\* np.asarray(img, dtype=np.uint8): (h, w) for one band, (h, w, bands) else.
AsArray(img) ==
    [shape |-> IF img.bands = 1 THEN <<img.size[2], img.size[1]>>
               ELSE <<img.size[2], img.size[1], img.bands>>,
     data |-> img.px]

\* np.expand_dims(a, axis=-1)
ExpandDims(a) == [shape |-> a.shape \o <<1>>, data |-> a.data]

\* np.rollaxis(a, 2).copy() of an (H, W, C) array: the (C, H, W) array with
\* out[c, y, x] = a[y, x, c].
RollAxis(a) ==
    LET H == a.shape[1]
        W == a.shape[2]
        C == a.shape[3]
    IN [shape |-> <<C, H, W>>,
        data |-> [k \in 1..(C * H * W) |->
                    LET j == k - 1
                        c == j \div (H * W)
                        y == (j % (H * W)) \div W
                        x == j % W
                    IN a.data[y * W * C + x * C + c + 1]]]

ResizeNoRepeat(a, shape) ==
    [shape |-> shape,
     data |-> [k \in 1..Numel(shape) |->
                 IF k <= Len(a.data) THEN a.data[k] ELSE 0]]

\* np.resize(a, shape): the flattened a, repeated or cut to fill the shape.
Resize(a, shape) ==
    [shape |-> shape,
     data |-> [k \in 1..Numel(shape) |->
                 IF Len(a.data) = 0 THEN 0
                 ELSE a.data[((k - 1) % Len(a.data)) + 1]]]

\* np.array(target, dtype=np.int64)
TargetArray(t) ==
    [shape |-> IF t.isimg THEN <<t.size[2], t.size[1]>> ELSE <<>>,
     data |-> t.px]

\* Whether `self += other` is allowed: other broadcasts to the shape of self.
Broadcasts(other, self) ==
    /\ Len(other) <= Len(self)
    /\ \A d \in 1..Len(other) :
          LET sd == self[Len(self) - Len(other) + d]
          IN other[d] = sd \/ other[d] = 1

\* self + other for a self of at most two dimensions, other broadcast to it.
BroadcastAdd(self, other) ==
    [k \in 1..Len(self.data) |->
        self.data[k] +
          (IF Len(other.shape) = 0 THEN other.data[1]
           ELSE LET W == self.shape[2]
                    y == (k - 1) \div W
                    x == (k - 1) % W
                    oy == IF other.shape[1] = 1 THEN 0 ELSE y
                    ox == IF other.shape[2] = 1 THEN 0 ELSE x
                IN other.data[oy * other.shape[2] + ox + 1])]

NoTensor == [shape |-> <<>>, rows |-> <<>>]
Raised(err) == [status |-> err, image_tensor |-> NoTensor, target_tensor |-> NoTensor]

\* The body of the for loop for sample i, and the rest of the loop after it.
\* image_tensor and target_tensor are [shape, rows]: rows[i] is tensor[i].
RECURSIVE CollateLoop(_, _, _, _)
CollateLoop(batch, i, image_tensor, target_tensor) ==
    IF i > Len(batch)
    THEN [status |-> "ok", image_tensor |-> image_tensor,
          target_tensor |-> target_tensor]
    ELSE
    LET w == batch[1].img.size[1]
        h == batch[1].img.size[2]
        a0 == AsArray(batch[i].img)
        a1 == IF Len(a0.shape) < 3 THEN ExpandDims(a0) ELSE a0
        a2 == RollAxis(a1)
        a3 == IF a2.shape[1] # 3 THEN Resize(a2, <<3, h, w>>) ELSE a2
        tgt == TargetArray(batch[i].target)
    IN IF a2.shape[1] # 3 /\ a2.shape[1] # 1
       THEN Raised("AssertionError")                      \* 'unexpected shape'
       ELSE IF SubSeq(image_tensor.shape, 2, 4) # a3.shape
       THEN Raised("AssertionError")                      \* 'shape mismatch'
       ELSE IF ~Broadcasts(tgt.shape, SubSeq(target_tensor.shape, 2,
                                            Len(target_tensor.shape)))
       THEN Raised("RuntimeError")
       ELSE CollateLoop(batch, i + 1,
              [image_tensor EXCEPT !.rows[i] =
                  [k \in 1..Len(@) |-> (@[k] + a3.data[k]) % 256]],
              [target_tensor EXCEPT !.rows[i] =
                  BroadcastAdd([shape |-> SubSeq(target_tensor.shape, 2,
                                                 Len(target_tensor.shape)),
                                data |-> @], tgt)])

\* pil_image_collate(batch), memory_format left at its default.
Collate(batch) ==
    IF Len(batch) = 0 THEN Raised("IndexError")           \* imgs[0]
    ELSE
    LET n == Len(batch)
        w == batch[1].img.size[1]
        h == batch[1].img.size[2]
        target_dims == IF batch[1].target.isimg
                       THEN <<n, batch[1].target.size[2], batch[1].target.size[1]>>
                       ELSE <<n>>
    IN CollateLoop(batch, 1,
          [shape |-> <<n, 3, h, w>>,
           rows |-> [r \in 1..n |-> Zeros(<<3, h, w>>).data]],
          [shape |-> target_dims,
           rows |-> [r \in 1..n |-> Zeros(Tail(target_dims)).data]])

\* The image at position i of a batch: its pixels differ from pixel to pixel
\* and from those of the images at the other positions.
MakeImage(size, bands, i) ==
    [size |-> size, bands |-> bands,
     px |-> [k \in 1..(size[1] * size[2] * bands) |-> (16 * i + k) % 256]]

\* The target at position i of a batch: a class index (tsize <<>>), or a
\* single-band label image of size tsize.
MakeTarget(tsize, i) ==
    IF tsize = <<>> THEN [isimg |-> FALSE, size |-> <<>>, px |-> <<i>>]
    ELSE [isimg |-> TRUE, size |-> tsize,
          px |-> [k \in 1..(tsize[1] * tsize[2]) |-> (4 * i + k) % 256]]

\* What the samples of a batch are drawn from: the image's size and bands,
\* and the target's size.
SampleKinds == [size : Sizes, bands : Bands, tsize : Sizes \cup { <<>> }]

\* The batch whose sample at position i is of kind kinds[i].
MakeBatch(kinds) ==
    [i \in 1..Len(kinds) |->
        [img |-> MakeImage(kinds[i].size, kinds[i].bands, i),
         target |-> MakeTarget(kinds[i].tsize, i)]]

NotCalled == [status |-> "not called", image_tensor |-> NoTensor,
              target_tensor |-> NoTensor]

ColStart ==
    /\ \E n \in 0..MaxSamples : \E kinds \in [1..n -> SampleKinds] :
          col_batch = MakeBatch(kinds)
    /\ col_out = NotCalled

ColCall ==
    /\ col_out = NotCalled
    /\ col_out' = Collate(col_batch)
    /\ UNCHANGED col_batch

ColCalled == col_out.status # "not called"

\* Some image of the batch has a band count other than 1 or 3, or a width or
\* height other than the first image's.
BadImage(batch) ==
    \E i \in 1..Len(batch) :
        \/ batch[i].img.bands \notin {1, 3}
        \/ batch[i].img.size # batch[1].img.size

\* Every image of the (non-empty) batch has one band and the first one's size.
SingleChannelBatch(batch) ==
    /\ Len(batch) >= 1
    /\ \A i \in 1..Len(batch) :
          /\ batch[i].img.bands = 1
          /\ batch[i].img.size = batch[1].img.size

\* C5: the call fails (it returns no tensors) if any image has a channel count
\* other than 1 or 3, or a height or width that differs from the first
\* image's, single-channel images included.  Stated with "fails" as any
\* raised error, which the claimed assertion error is one of.
C5_BadImagesRaise ==
    (ColCalled /\ BadImage(col_batch)) => col_out.status # "ok"

\* Channel c (0..2) of sample i of the returned image tensor.
Channel(out, i, c) ==
    LET hw == out.image_tensor.shape[3] * out.image_tensor.shape[4]
    IN SubSeq(out.image_tensor.rows[i], c * hw + 1, (c + 1) * hw)

\* The image part of C6: no error, shape (batch, 3, h, w), and each channel of
\* sample i is the pixel grid of image i.
BroadcastTo3(batch, out) ==
    /\ out.status = "ok"
    /\ out.image_tensor.shape =
          <<Len(batch), 3, batch[1].img.size[2], batch[1].img.size[1]>>
    /\ \A i \in 1..Len(batch) : \A c \in 0..2 :
          Channel(out, i, c) = batch[i].img.px

\* C6 as claimed: for every non-empty batch of single-channel images of one
\* width w and height h the call does not raise, the image tensor is the
\* 3-channel broadcast, and the label tensor has shape (batch, h, w) for image
\* labels and (batch,) for scalar labels.
C6_Original ==
    (ColCalled /\ SingleChannelBatch(col_batch))
        => /\ BroadcastTo3(col_batch, col_out)
           /\ (\A i \in 1..Len(col_batch) : col_batch[i].target.isimg)
                 => col_out.target_tensor.shape =
                       <<Len(col_batch), col_batch[1].img.size[2],
                         col_batch[1].img.size[1]>>
           /\ (\A i \in 1..Len(col_batch) : ~col_batch[i].target.isimg)
                 => col_out.target_tensor.shape = <<Len(col_batch)>>

\* The labels are all scalars, or all single-band images of the images' size.
UniformLabels(batch) ==
    \/ \A i \in 1..Len(batch) : ~batch[i].target.isimg
    \/ \A i \in 1..Len(batch) :
          /\ batch[i].target.isimg
          /\ batch[i].target.size = batch[1].img.size

\* C6, amended: the same, for batches whose labels are all scalars or all
\* single-channel label images of the images' own width and height.
C6_SingleChannelBroadcast ==
    (ColCalled /\ SingleChannelBatch(col_batch) /\ UniformLabels(col_batch))
        => /\ BroadcastTo3(col_batch, col_out)
           /\ col_out.target_tensor.shape =
                 (IF col_batch[1].target.isimg
                  THEN <<Len(col_batch), col_batch[1].img.size[2],
                         col_batch[1].img.size[1]>>
                  ELSE <<Len(col_batch)>>)

\* The collator has run on two or more single-channel images of more than one
\* pixel, with label images of the same size.
C6_Witness ==
    /\ ColCalled
    /\ Len(col_batch) >= 2
    /\ SingleChannelBatch(col_batch)
    /\ UniformLabels(col_batch)
    /\ col_batch[1].target.isimg
    /\ col_batch[1].img.size[1] * col_batch[1].img.size[2] >= 2
    /\ col_out.status = "ok"

(***************************************************************************)
(* format_data_to_json_serializable (composer/loggers/mosaicml_logger.py,  *)
(* known here through its test and the specification)                      *)
(*                                                                         *)
(* A value is a record with a tag: [tag "str", s], [tag "num", n],         *)
(* [tag "bool", b], [tag "tensor", shape], [tag "datetime", t],            *)
(* [tag "map", m] with m a function from keys to values, [tag "list",      *)
(* items] with items a sequence of values.                                 *)
(***************************************************************************)

\* Longest list among the formatter's inputs.
MaxListLen == 2

Str(x) == [tag |-> "str", s |-> x]
Num(x) == [tag |-> "num", n |-> x]
Bool(x) == [tag |-> "bool", b |-> x]
Tensor(shape) == [tag |-> "tensor", shape |-> shape]
DateTime(x) == [tag |-> "datetime", t |-> x]
Map(m) == [tag |-> "map", m |-> m]
List(items) == [tag |-> "list", items |-> items]

\* str(torch.Size(shape)), e.g. "torch.Size([2, 2])".
RECURSIVE JoinDims(_)
JoinDims(shape) ==
    IF Len(shape) = 0 THEN ""
    ELSE IF Len(shape) = 1 THEN ToString(shape[1])
    ELSE ToString(shape[1]) \o ", " \o JoinDims(Tail(shape))

SizeStr(shape) == "torch.Size([" \o JoinDims(shape) \o "])"

FormatLeafRepr(v) ==
    IF v.tag = "tensor" THEN Str("Tensor of shape " \o SizeStr(v.shape))
    ELSE IF v.tag = "datetime" THEN Str("datetime(" \o ToString(v.t) \o ")")
    ELSE IF v.tag = "str" THEN Str("'" \o v.s \o "'")
    ELSE v

\* A leaf: a tensor becomes a string describing its shape, any other value
\* that JSON cannot hold becomes its string, the JSON types pass through.
FormatLeaf(v) ==
    IF v.tag = "tensor" THEN Str("Tensor of shape " \o SizeStr(v.shape))
    ELSE IF v.tag = "datetime" THEN Str("datetime(" \o ToString(v.t) \o ")")
    ELSE v

\* format_data_to_json_serializable(v): mappings and lists keep their
\* structure, their values are formatted.
RECURSIVE Format(_)
Format(v) ==
    IF v.tag = "map" THEN Map([k \in DOMAIN v.m |-> Format(v.m[k])])
    ELSE IF v.tag = "list"
    THEN List([k \in 1..Len(v.items) |-> Format(v.items[k])])
    ELSE FormatLeaf(v)

\* Whether json.dumps(v) succeeds.
RECURSIVE JsonSerializable(_)
JsonSerializable(v) ==
    IF v.tag = "map" THEN \A k \in DOMAIN v.m : JsonSerializable(v.m[k])
    ELSE IF v.tag = "list"
    THEN \A k \in 1..Len(v.items) : JsonSerializable(v.items[k])
    ELSE v.tag \in {"str", "num", "bool"}

\* The values of the test's data: strings, numbers, booleans and tensors ...
Leaves ==
    { Str("value1"), Num(42), Bool(TRUE), Tensor(<<3>>), Tensor(<<2, 2>>) }

\* ... and mappings and lists of them, and containers nested once more.
Values ==
    Leaves
    \cup { Map([k \in {"inner_key"} |-> x]) : x \in Leaves }
    \cup { List(l) : l \in UNION { [1..n -> Leaves] : n \in 0..MaxListLen } }
    \cup { List(<<Map([k \in {"inner_key"} |-> Tensor(<<3>>)]), Num(42)>>),
           Map([k \in {"inner_key"} |-> List(<<Tensor(<<3>>), Str("value1")>>)]) }

\* The metadata mappings handed to the formatter.
FormatInputs ==
    { Map(m) : m \in UNION { [ks -> Values] : ks \in SUBSET {"key1", "key2"} } }

FmtStart ==
    /\ fmt_data \in FormatInputs
    /\ fmt_once = Num(0)
    /\ fmt_twice = Num(0)
    /\ fmt_pc = 0

FormatOnce ==
    /\ fmt_pc = 0
    /\ fmt_once' = Format(fmt_data)
    /\ fmt_pc' = 1
    /\ UNCHANGED <<fmt_data, fmt_twice>>

FormatAgain ==
    /\ fmt_pc = 1
    /\ fmt_twice' = Format(fmt_once)
    /\ fmt_pc' = 2
    /\ UNCHANGED <<fmt_data, fmt_once>>

\* The value v with every tensor leaf replaced by the string describing its
\* shape and nothing else changed, written out independently of Format.
RECURSIVE TensorsDescribed(_)
TensorsDescribed(v) ==
    CASE v.tag = "tensor" -> [tag |-> "str",
                              s |-> "Tensor of shape " \o SizeStr(v.shape)]
      [] v.tag = "map" -> [tag |-> "map",
                           m |-> [k \in DOMAIN v.m |-> TensorsDescribed(v.m[k])]]
      [] v.tag = "list" -> [tag |-> "list",
                            items |-> [k \in 1..Len(v.items) |->
                                          TensorsDescribed(v.items[k])]]
      [] OTHER -> v

\* C7: formatting is idempotent, format(format(d)) = format(d), where format(d)
\* is d with its tensor leaves replaced by strings describing their shape and
\* every other value unchanged.
C7_FormatIdempotent ==
    /\ fmt_pc >= 1 => fmt_once = TensorsDescribed(fmt_data)
    /\ fmt_pc = 2 => fmt_twice = fmt_once

\* The formatter has been applied twice to a mapping that holds a string, and a
\* tensor inside a list, and the first application changed it.
C7_Witness ==
    /\ fmt_pc = 2
    /\ fmt_once # fmt_data
    /\ \E k \in DOMAIN fmt_data.m : fmt_data.m[k].tag = "str"
    /\ \E k \in DOMAIN fmt_data.m :
          /\ fmt_data.m[k].tag = "list"
          /\ \E j \in 1..Len(fmt_data.m[k].items) :
                fmt_data.m[k].items[j].tag = "tensor"

(***************************************************************************)
(* MosaicMLLogger under a Trainer, against MockMAPI.  The logger is known  *)
(* through its tests and the specification; MockMAPI and RunEventsCallback *)
(* are source.  A dict is a function from its keys.                        *)
(***************************************************************************)

\* Number of processes of the distributed run (ranks 0..WorldSize - 1).
WorldSize == 2
\* Number of log_metrics events of one rank's fit.
MaxEvents == 2

Ranks == 0..(WorldSize - 1)
RunName == "small_chungus"
EmptyDict == [k \in {} |-> Num(0)]

\* The ignore_keys of the tests: the default, two metric names, the wildcard,
\* and the wildcard beside a name.
IgnoreLists == { <<>>, <<"loss", "accuracy">>, <<"*">>, <<"loss", "*">> }

\* fnmatch(key, pattern), for the patterns above: '*' matches every key, a
\* pattern without wildcard matches the key equal to it.
Matches(key, pattern) == pattern = "*" \/ pattern = key

FilterKeepAll(metadata, ignore) == metadata

\* The metric filter: the keys no pattern of the ignore-list matches.
Filter(metadata, ignore) ==
    [k \in { key \in DOMAIN metadata :
                 ~\E j \in 1..Len(ignore) : Matches(key, ignore[j]) }
        |-> metadata[k]]

\* The mapping the logger transmits: filtered, formatted, and with the keys
\* under the "mosaicml/" prefix.
Outgoing(metadata, ignore) ==
    LET kept == Filter(metadata, ignore)
    IN [pk \in { "mosaicml/" \o k : k \in DOMAIN kept } |->
          Format(kept[CHOOSE k \in DOMAIN kept : "mosaicml/" \o k = pk])]

\* MockMAPI.update_run_metadata: run_metadata after the call.
UpdateRunMetadata(md, run_name, new_metadata) ==
    LET old == IF run_name \in DOMAIN md THEN md[run_name] ELSE EmptyDict
        new == [k \in DOMAIN old \cup DOMAIN new_metadata |->
                   IF k \in DOMAIN new_metadata THEN new_metadata[k] ELSE old[k]]
    IN [n \in DOMAIN md \cup {run_name} |-> IF n = run_name THEN new ELSE md[n]]

RankEnabledAll(r) == TRUE

\* The logger reports only on the global rank-zero process.
RankEnabled(r) == r = 0

\* One logging event of rank r with the mapping metadata: on an enabled rank,
\* one update_run_metadata call with the outgoing mapping.
LogEvent(r, metadata) ==
    IF RankEnabled(r)
    THEN LET out == Outgoing(metadata, ignore_keys)
             md == UpdateRunMetadata(run_metadata[r], RunName, out)
         IN /\ run_metadata' = [run_metadata EXCEPT ![r] = md]
            /\ mapi_calls' = [mapi_calls EXCEPT ![r] = @ + 1]
            /\ mapi_sent' = [mapi_sent EXCEPT ![r] = out]
            /\ mapi_error' = [mapi_error EXCEPT ![r] =
                                 @ \/ ~JsonSerializable(Map(md[RunName]))]
    ELSE UNCHANGED <<run_metadata, mapi_calls, mapi_sent, mapi_error>>

\* The metrics a fit logs.
Metrics ==
    { [k \in {"loss"} |-> Num(1)],
      [k \in {"loss", "accuracy"} |-> IF k = "loss" THEN Tensor(<<3>>) ELSE Num(1)],
      [k \in {"epoch"} |-> Num(1)] }

LogStart(ignores) ==
    /\ ignore_keys \in ignores
    /\ rank_pc = [r \in Ranks |-> "new"]
    /\ rank_events = [r \in Ranks |-> 0]
    /\ run_metadata = [r \in Ranks |-> EmptyDict]
    /\ mapi_calls = [r \in Ranks |-> 0]
    /\ mapi_sent = [r \in Ranks |-> EmptyDict]
    /\ mapi_error = [r \in Ranks |-> FALSE]

\* Trainer(...): the logger reports the run's system metadata.
TrainerInit(r) ==
    /\ rank_pc[r] = "new"
    /\ LogEvent(r, [k \in {"num_nodes"} |-> Num(1)])
    /\ rank_pc' = [rank_pc EXCEPT ![r] = "init"]
    /\ UNCHANGED <<ignore_keys, rank_events>>

\* RunEventsCallback.after_load
AfterLoad(r) ==
    /\ rank_pc[r] = "init"
    /\ LogEvent(r, [k \in {"model_initialized_dt"} |-> DateTime(r)])
    /\ rank_pc' = [rank_pc EXCEPT ![r] = "fit"]
    /\ UNCHANGED <<ignore_keys, rank_events>>

\* One log_metrics call during trainer.fit().
LogMetrics(r) ==
    /\ rank_pc[r] = "fit"
    /\ rank_events[r] < MaxEvents
    /\ \E metadata \in Metrics : LogEvent(r, metadata)
    /\ rank_events' = [rank_events EXCEPT ![r] = @ + 1]
    /\ UNCHANGED <<ignore_keys, rank_pc>>

\* trainer.fit() returns.
FitEnd(r) ==
    /\ rank_pc[r] = "fit"
    /\ rank_pc' = [rank_pc EXCEPT ![r] = "done"]
    /\ UNCHANGED <<ignore_keys, rank_events, run_metadata, mapi_calls,
                   mapi_sent, mapi_error>>

\* The keys recorded for the run in rank r's MockMAPI.
RecordedKeys(r) ==
    IF RunName \in DOMAIN run_metadata[r] THEN DOMAIN run_metadata[r][RunName]
    ELSE {}

\* C8: with an ignore-list that contains '*', the filtered result of every
\* logging event is empty, so the metadata recorded for the run through
\* update_run_metadata contains no keys.
C8_WildcardFiltersAll ==
    (\E j \in 1..Len(ignore_keys) : ignore_keys[j] = "*")
        => \A r \in Ranks :
              /\ DOMAIN mapi_sent[r] = {}
              /\ RecordedKeys(r) = {}

\* With '*' among the ignore_keys, rank zero has finished a fit with metrics
\* logged, and the run is recorded in its MockMAPI.
C8_Witness ==
    /\ \E j \in 1..Len(ignore_keys) : ignore_keys[j] = "*"
    /\ rank_pc[0] = "done"
    /\ rank_events[0] >= 2
    /\ mapi_calls[0] >= 4
    /\ RunName \in DOMAIN run_metadata[0]

EosIdle ==
    /\ batch_size = 0
    /\ done_tracker = <<>>
    /\ eos_before = <<>>
    /\ eos_rows = -1
    /\ eos_ret = FALSE
    /\ eos_calls = 0

TfIdle ==
    /\ transform = NoTransform
    /\ tf_prev = NoTransform
    /\ tf_new = [kind |-> "None", id |-> 0]
    /\ tf_is_tensor = FALSE
    /\ tf_log = [added |-> "", now |-> <<>>]
    /\ tf_calls = 0

ColIdle ==
    /\ col_batch = <<>>
    /\ col_out = NotCalled

LogIdle ==
    /\ ignore_keys = <<>>
    /\ rank_pc = [r \in Ranks |-> "new"]
    /\ rank_events = [r \in Ranks |-> 0]
    /\ run_metadata = [r \in Ranks |-> EmptyDict]
    /\ mapi_calls = [r \in Ranks |-> 0]
    /\ mapi_sent = [r \in Ranks |-> EmptyDict]
    /\ mapi_error = [r \in Ranks |-> FALSE]

FmtIdle ==
    /\ fmt_data = Map(<<>>)
    /\ fmt_once = Num(0)
    /\ fmt_twice = Num(0)
    /\ fmt_pc = 0

EosInit == EosStart /\ TfIdle /\ ColIdle /\ FmtIdle /\ LogIdle
EosNext == EosCall /\ UNCHANGED <<tfVars, colVars, fmtVars, logVars>>
SpecEos == EosInit /\ [][EosNext]_vars

TfInit == TfStart /\ EosIdle /\ ColIdle /\ FmtIdle /\ LogIdle
TfNext == TfAdd /\ UNCHANGED <<eosVars, colVars, fmtVars, logVars>>
SpecTransform == TfInit /\ [][TfNext]_vars

ColInit == ColStart /\ EosIdle /\ TfIdle /\ FmtIdle /\ LogIdle
ColNext == ColCall /\ UNCHANGED <<eosVars, tfVars, fmtVars, logVars>>
SpecCollate == ColInit /\ [][ColNext]_vars

FmtInit == FmtStart /\ EosIdle /\ TfIdle /\ ColIdle /\ LogIdle
FmtNext ==
    \/ FormatOnce /\ UNCHANGED <<eosVars, tfVars, colVars, logVars>>
    \/ FormatAgain /\ UNCHANGED <<eosVars, tfVars, colVars, logVars>>
SpecFormat == FmtInit /\ [][FmtNext]_vars

LogOthersIdle == EosIdle /\ TfIdle /\ ColIdle /\ FmtIdle
LogNext ==
    \E r \in Ranks :
        \/ TrainerInit(r) /\ UNCHANGED <<eosVars, tfVars, colVars, fmtVars>>
        \/ AfterLoad(r) /\ UNCHANGED <<eosVars, tfVars, colVars, fmtVars>>
        \/ LogMetrics(r) /\ UNCHANGED <<eosVars, tfVars, colVars, fmtVars>>
        \/ FitEnd(r) /\ UNCHANGED <<eosVars, tfVars, colVars, fmtVars>>

\* Any MosaicMLLogger(ignore_keys=...) of the tests.
LogInit == LogStart(IgnoreLists) /\ LogOthersIdle
SpecLogger == LogInit /\ [][LogNext]_vars

\* test_logged_data_is_json_serializable: MosaicMLLogger() on every rank.
DistInit == LogStart({ <<>> }) /\ LogOthersIdle
SpecDist == DistInit /\ [][LogNext]_vars

====
